---------------------------- MODULE Spec2Model ----------------------------
(***************************************************************************)
(* Model of src/soporte.py: the Foursquare places acquisition pipeline     *)
(* (buscar_lugares_cercanos, obtener_df_lugares, sacar_valor, limpieza_df) *)
(* and the coordinate validator (check_locations).                         *)
(*                                                                         *)
(* Python values are modelled as tagged records, Python dicts as TLA+      *)
(* records (a key of the dict is a field of the record), Python lists as   *)
(* sequences.  A raised exception is a terminal state pc = "raised" with   *)
(* the exception's type in exc.                                            *)
(***************************************************************************)
EXTENDS Integers, Sequences, FiniteSets, TLC

VARIABLES
    pc,           \* position of the running function
    coordenadas,  \* obtener_df_lugares: argument, list of (lat, lon)
    categoria,    \* obtener_df_lugares: argument
    query,        \* obtener_df_lugares: argument
    distancia,    \* obtener_df_lugares: argument
    i,            \* loop index (obtener_df_lugares line 188, check_locations line 62)
    resultados,   \* obtener_df_lugares: the accumulator (line 186)
    res,          \* value returned by the last buscar_lugares_cercanos call
    response,     \* the last HTTP response received by requests.get
    peticiones,   \* HTTP GETs issued so far: their params, in order
    enVuelo,      \* number of HTTP GETs sent and not yet answered
    traza,        \* events of the run: sleeps, calls, returns, normalization
    stdout,       \* lines printed so far
    df,           \* the table handed to limpieza_df (line 201), NoValue before
    salida,       \* the value returned to the caller (a table), NoValue before
    exc,          \* type of the exception that ended the run, "" if none
    towns,        \* check_locations: argument
    locations,    \* check_locations: argument
    ok            \* check_locations: local flag (line 60)

vars == <<pc, coordenadas, categoria, query, distancia, i, resultados, res,
          response, peticiones, enVuelo, traza, stdout, df, salida, exc,
          towns, locations, ok>>

-----------------------------------------------------------------------------
(* Bounds of the model *)

MaxCoords == 2      \* longest list of coordinates
MaxResults == 2     \* most records in one response's "results"
MaxFilas == 3       \* most rows of a table given directly to limpieza_df
MaxLocs == 2        \* longest list of locations given to check_locations

-----------------------------------------------------------------------------
(* Python values *)

None == [t |-> "NoneType"]
NaN == [t |-> "float", v |-> "nan"]
Str(s) == [t |-> "str", v |-> s]
Num(n) == [t |-> "int", v |-> n]

IsStr(x) == "t" \in DOMAIN x /\ x["t"] = "str"
IsNum(x) == "t" \in DOMAIN x /\ x["t"] = "int"
\* a dict is a record of its keys; the tagged scalars above carry the field t
IsDict(x) == "t" \notin DOMAIN x

\* Python truthiness of an optional string argument (lines 106, 109)
Truthy(x) == x # None /\ x # Str("")

\* the value a function returns before it has returned
NoValue == [t |-> "unset"]

Range(s) == {s[k] : k \in DOMAIN s}

\* sequences over S of length at most n
SeqsUpTo(S, n) == UNION {[1..m -> S] : m \in 0..n}


-----------------------------------------------------------------------------
(* Raw place records, as the places API returns them *)

GeoMain(lat, lon) ==
    [main |-> [latitude |-> Num(lat), longitude |-> Num(lon)],
     roof |-> [latitude |-> Num(lat), longitude |-> Num(lon)]]
GeoSinMain(lat, lon) ==
    [roof |-> [latitude |-> Num(lat), longitude |-> Num(lon)]]
LocCon(addr) == [formatted_address |-> Str(addr), country |-> Str("ES")]
LocSin == [country |-> Str("ES")]

Lugar(id, nombre, dist, geo, loc) ==
    [fsq_id |-> Str(id), name |-> Str(nombre), distance |-> Num(dist),
     geocodes |-> geo, location |-> loc,
     categories |-> <<>>, chains |-> <<>>, closed_bucket |-> Str("LikelyOpen"),
     link |-> Str(id), related_places |-> [children |-> <<>>],
     timezone |-> Str("Europe/Madrid")]

\* the dict d without the keys ks
SinClaves(d, ks) == [k \in DOMAIN d \ ks |-> d[k]]

BarA == Lugar("f1", "Bar", 10, GeoMain(40, -3), LocCon("Calle Mayor 1"))
\* same name as BarA, no "main" geocode, no formatted address
BarB == Lugar("f2", "Bar", 20, GeoSinMain(40, -3), LocSin)
CafeA == Lugar("f3", "Cafe", 30, GeoMain(41, 2), LocSin)
\* no "location" key at all: the table holds NaN in that cell
CafeB == SinClaves(Lugar("f4", "Cafe", 40, GeoMain(41, 2), LocSin), {"location"})
PubA == Lugar("f5", "Pub", 50, GeoSinMain(42, 1), LocCon("Plaza 2"))
\* a record without the identifier/category fields
Kiosko == SinClaves(Lugar("f6", "Kiosko", 60, GeoMain(43, 0), LocCon("Paseo 3")),
                    {"fsq_id", "categories", "chains", "closed_bucket", "link",
                     "related_places", "timezone"})
\* no "geocodes" key at all
Fuente == SinClaves(Lugar("f7", "Fuente", 70, GeoMain(44, 0), LocSin), {"geocodes"})

\* records the modelled places API answers with
LugaresAPI == {BarA, BarB, CafeA}
\* records of the tables given directly to the normalizer
LugaresTabla == {BarA, BarB, CafeA, CafeB, PubA, Kiosko, Fuente}

-----------------------------------------------------------------------------
(* Tables: pd.DataFrame(list of dicts) *)

\* the elements of s at the indices in K, in order (n = Len(s))
RECURSIVE Sub(_, _, _)
Sub(s, K, n) ==
    IF n = 0 THEN <<>>
    ELSE IF n \in K THEN Append(Sub(s, K, n - 1), s[n])
    ELSE Sub(s, K, n - 1)

\* pd.DataFrame(lista): the columns are the union of the keys, a missing key is NaN
DataFrame(lista) ==
    LET cols == UNION {DOMAIN lista[k] : k \in DOMAIN lista}
    IN [columns |-> cols,
        rows |-> [k \in DOMAIN lista |->
                    [c \in cols |-> IF c \in DOMAIN lista[k] THEN lista[k][c] ELSE NaN]]]

\* variant: keep='last'
drop_duplicates_last(t, col) ==
    LET n == Len(t.rows)
        K == {k \in 1..n : \A j \in (k + 1)..n : t.rows[j][col] # t.rows[k][col]}
    IN [t EXCEPT !.rows = Sub(t.rows, K, n)]

\* df.drop_duplicates([col], keep='first'): a row stays iff no earlier row has its value
drop_duplicates(t, col) ==
    LET n == Len(t.rows)
        K == {k \in 1..n : \A j \in 1..(k - 1) : t.rows[j][col] # t.rows[k][col]}
    IN [t EXCEPT !.rows = Sub(t.rows, K, n)]

\* dict.get(k): None when the key is absent
Get(d, k) == IF k \in DOMAIN d THEN d[k] ELSE None

\* sacar_valor: dc.get('formatted_address'); any exception (dc is not a dict) gives NaN
sacar_valor(dc) ==
    IF IsDict(dc) THEN Get(dc, "formatted_address") ELSE NaN

\* The dtype pandas infers for the result of Series.apply: a column holding a string
\* keeps its objects; one holding numbers becomes float (None turns NaN); for a column
\* holding only None/NaN the rule depends on the installed pandas (dt).
Inferir(vals, dt) ==
    IF \E k \in DOMAIN vals : IsStr(vals[k]) THEN vals
    ELSE IF (\E k \in DOMAIN vals : IsNum(vals[k])) \/ dt = "float64"
         THEN [k \in DOMAIN vals |-> IF vals[k] = None THEN NaN ELSE vals[k]]
    ELSE vals

Raised(e) == [exc |-> e, df |-> NoValue]
Returned(t) == [exc |-> "", df |-> t]

ColumnasQuitadas == {"fsq_id", "categories", "chains", "closed_bucket", "link",
                     "related_places", "timezone"}

\* line 154: the exception of the first row whose geocodes cell has no 'main', "" if none
RECURSIVE ErrorMain(_, _)
ErrorMain(rows, k) ==
    IF k > Len(rows) THEN ""
    ELSE IF ~IsDict(rows[k]["geocodes"]) THEN "TypeError"
    ELSE IF "main" \notin DOMAIN rows[k]["geocodes"] THEN "KeyError"
    ELSE ErrorMain(rows, k + 1)

\* lines 155-167 on a table whose rows all have a 'main' geocode and a location column
Aplanar(d, dt) ==
    LET n == Len(d.rows)
        coord == [k \in 1..n |-> d.rows[k]["geocodes"]["main"]]
        lat == Inferir([k \in 1..n |-> Get(coord[k], "latitude")], dt)
        lon == Inferir([k \in 1..n |-> Get(coord[k], "longitude")], dt)
        dir == Inferir([k \in 1..n |-> sacar_valor(d.rows[k]["location"])], dt)
        quedan == d.columns \ (ColumnasQuitadas \cup {"geocodes", "location", "Coordenadas"})
        renombrar(c) == IF c = "distance" THEN "Distancia"
                        ELSE IF c = "name" THEN "Nombre" ELSE c
        cols == {renombrar(c) : c \in quedan} \cup {"Latitud", "Longitud", "Direccion"}
        origen(c) == IF c = "Distancia" THEN "distance"
                     ELSE IF c = "Nombre" THEN "name" ELSE c
    IN [columns |-> cols,
        rows |-> [k \in 1..n |->
                    [c \in cols |->
                        IF c = "Latitud" THEN lat[k]
                        ELSE IF c = "Longitud" THEN lon[k]
                        ELSE IF c = "Direccion" THEN dir[k]
                        ELSE d.rows[k][origen(c)]]]]

\* lines 154-169 on the de-duplicated table d
Limpiar154(d, dt) ==
    IF "geocodes" \notin d.columns THEN Raised("KeyError")         \* line 154
    ELSE IF ErrorMain(d.rows, 1) # "" THEN Raised(ErrorMain(d.rows, 1))
    ELSE IF \E k \in DOMAIN d.rows : ~IsDict(d.rows[k]["geocodes"]["main"])
         THEN Raised("AttributeError")                              \* line 155
    ELSE IF "location" \notin d.columns THEN Raised("KeyError")    \* line 159
    ELSE IF ~(ColumnasQuitadas \subseteq d.columns)
         THEN Raised("KeyError")                                    \* line 162
    ELSE Returned(Aplanar(d, dt))

\* variant: rows without a 'main' geocode are left out instead of failing the table
limpieza_df_aislada(t, dt) ==
    IF "name" \notin t.columns THEN Raised("KeyError")
    ELSE LET d == drop_duplicates(t, "name")
             K == {k \in DOMAIN d.rows :
                      /\ "geocodes" \in d.columns
                      /\ IsDict(d.rows[k]["geocodes"])
                      /\ "main" \in DOMAIN d.rows[k]["geocodes"]}
         IN Limpiar154([d EXCEPT !.rows = Sub(d.rows, K, Len(d.rows))], dt)

\* limpieza_df(df): the table returned, or the exception raised
limpieza_df(t, dt) ==
    IF "name" \notin t.columns THEN Raised("KeyError")             \* line 151
    ELSE Limpiar154(drop_duplicates(t, "name"), dt)

\* the dtype rules a pandas build may have for an all-None/NaN column
Dtypes == {"object", "float64"}


-----------------------------------------------------------------------------
(* buscar_lugares_cercanos *)

\* variant: "if query" instead of "elif query"
ParamsAmbos(coord, cat, q, dist) ==
    LET base == [ll |-> [fmt |-> "{},{}", a |-> coord[1], b |-> coord[2]],
                 radius |-> dist]
    IN IF Truthy(cat) /\ Truthy(q)
       THEN [ll |-> base.ll, radius |-> base.radius, categories |-> cat, query |-> q]
       ELSE IF Truthy(cat) THEN [ll |-> base.ll, radius |-> base.radius, categories |-> cat]
       ELSE IF Truthy(q) THEN [ll |-> base.ll, radius |-> base.radius, query |-> q]
       ELSE base

\* lines 100-110: the query parameters of the request
Params(coord, cat, q, dist) ==
    LET base == [ll |-> [fmt |-> "{},{}", a |-> coord[1], b |-> coord[2]],
                 radius |-> dist]
    IN IF Truthy(cat) THEN [ll |-> base.ll, radius |-> base.radius, categories |-> cat]
       ELSE IF Truthy(q) THEN [ll |-> base.ll, radius |-> base.radius, query |-> q]
       ELSE base

\* variant: the body is returned whatever the status
RetornoSiempre(r) == r.json

\* lines 116-121: the value returned for a response
Retorno(r) == IF r.status_code = 200 THEN r.json ELSE None

\* lines 116-121: the lines printed for a response
Impreso(r) == IF r.status_code = 200 THEN <<>> ELSE <<(<<"Error", r.status_code>>)>>

\* what the remote service may answer
Cuerpos == {[results |-> s] : s \in SeqsUpTo(LugaresAPI, MaxResults)}
               \cup {[context |-> Str("geo_bounds")]}
Respuestas == {[status_code |-> 200, json |-> b] : b \in Cuerpos}
                  \cup {[status_code |-> c, json |-> [message |-> Str("error")]] :
                            c \in {403, 500}}

-----------------------------------------------------------------------------
(* obtener_df_lugares *)

Coords == {<<40, -3>>, <<41, 2>>}
Categorias == {None, Str(""), Str("food")}
Queries == {None, Str(""), Str("cafe")}
Distancias == {Num(1000), Num(500)}

\* variant: query and categoria passed in each other's place
ArgsLlamadaCruzados(coord, q, cat, dist) ==
    [coordenadas |-> coord, categoria |-> q, query |-> cat, distancia |-> dist]

\* line 194: the arguments buscar_lugares_cercanos is called with
ArgsLlamada(coord, q, cat, dist) ==
    [coordenadas |-> coord, categoria |-> cat, query |-> q, distancia |-> dist]

\* variant: no membership test
AcumularTodo(acc, lista) == acc \o lista

\* lines 197-199: append each record of lista not already in acc
RECURSIVE Acumular(_, _)
Acumular(acc, lista) ==
    IF lista = <<>> THEN acc
    ELSE Acumular(IF Head(lista) \in Range(acc) THEN acc ELSE Append(acc, Head(lista)),
                  Tail(lista))

\* line 197: res.get('results', [])
Results(r) == IF "results" \in DOMAIN r THEN r["results"] ELSE <<>>

Init ==
    /\ pc = "loop"
    /\ coordenadas \in SeqsUpTo(Coords, MaxCoords)
    /\ categoria \in Categorias
    /\ query \in Queries
    /\ distancia \in Distancias
    /\ i = 0
    /\ resultados = <<>>
    /\ res = NoValue
    /\ response = NoValue
    /\ peticiones = <<>>
    /\ enVuelo = 0
    /\ traza = <<>>
    /\ stdout = <<>>
    /\ df = NoValue
    /\ salida = NoValue
    /\ exc = ""
    /\ towns = <<>>
    /\ locations = <<>>
    /\ ok = TRUE

\* line 191: time.sleep(random.uniform(0.5, 1.5))
Pausa ==
    /\ pc = "loop"
    /\ i < Len(coordenadas)
    /\ traza' = Append(traza, [e |-> "sleep"])
    /\ pc' = "llamar"
    /\ UNCHANGED <<coordenadas, categoria, query, distancia, i, resultados, res,
                   response, peticiones, enVuelo, stdout, df, salida, exc,
                   towns, locations, ok>>

\* line 194 and lines 92-113: the call, up to the GET being sent
Llamar ==
    /\ pc = "llamar"
    /\ LET a == ArgsLlamada(coordenadas[i + 1], query, categoria, distancia)
       IN /\ traza' = Append(traza, [e |-> "call", args |-> a])
          /\ peticiones' = Append(peticiones,
                                  Params(a.coordenadas, a.categoria, a.query, a.distancia))
    /\ enVuelo' = enVuelo + 1
    /\ pc' = "esperar"
    /\ UNCHANGED <<coordenadas, categoria, query, distancia, i, resultados, res,
                   response, stdout, df, salida, exc, towns, locations, ok>>

\* lines 113-121: the response arrives and buscar_lugares_cercanos returns
Responder ==
    /\ pc = "esperar"
    /\ \E r \in Respuestas :
          /\ response' = r
          /\ res' = Retorno(r)
          /\ stdout' = stdout \o Impreso(r)
          /\ traza' = Append(traza, [e |-> "return", status |-> r.status_code])
    /\ enVuelo' = enVuelo - 1
    /\ pc' = "procesar"
    /\ UNCHANGED <<coordenadas, categoria, query, distancia, i, resultados,
                   peticiones, df, salida, exc, towns, locations, ok>>

\* lines 197-199: res.get(...) raises AttributeError when res is None
Procesar ==
    /\ pc = "procesar"
    /\ IF IsDict(res)
       THEN /\ resultados' = Acumular(resultados, Results(res))
            /\ i' = i + 1
            /\ pc' = "loop"
            /\ exc' = exc
       ELSE /\ pc' = "raised"
            /\ exc' = "AttributeError"
            /\ UNCHANGED <<resultados, i>>
    /\ UNCHANGED <<coordenadas, categoria, query, distancia, res, response,
                   peticiones, enVuelo, traza, stdout, df, salida,
                   towns, locations, ok>>

\* lines 201-202: df = pd.DataFrame(resultados); return limpieza_df(df)
Normalizar ==
    /\ pc = "loop"
    /\ i = Len(coordenadas)
    /\ df' = DataFrame(resultados)
    /\ traza' = Append(traza, [e |-> "limpieza"])
    /\ \E dt \in Dtypes :
          LET r == limpieza_df(DataFrame(resultados), dt)
          IN /\ exc' = r.exc
             /\ salida' = r.df
             /\ pc' = IF r.exc = "" THEN "done" ELSE "raised"
    /\ UNCHANGED <<coordenadas, categoria, query, distancia, i, resultados, res,
                   response, peticiones, enVuelo, stdout, towns, locations, ok>>

Next == Pausa \/ Llamar \/ Responder \/ Procesar \/ Normalizar

Spec == Init /\ [][Next]_vars

-----------------------------------------------------------------------------
(* limpieza_df called directly on a table *)

InitLimpieza ==
    /\ pc = "limpieza_df"
    /\ df \in {DataFrame(t) : t \in SeqsUpTo(LugaresTabla, MaxFilas)}
    /\ coordenadas = <<>>
    /\ categoria = None
    /\ query = None
    /\ distancia = Num(1000)
    /\ i = 0
    /\ resultados = <<>>
    /\ res = NoValue
    /\ response = NoValue
    /\ peticiones = <<>>
    /\ enVuelo = 0
    /\ traza = <<>>
    /\ stdout = <<>>
    /\ salida = NoValue
    /\ exc = ""
    /\ towns = <<>>
    /\ locations = <<>>
    /\ ok = TRUE

\* lines 151-169
Limpiar ==
    /\ pc = "limpieza_df"
    /\ \E dt \in Dtypes :
          LET r == limpieza_df(df, dt)
          IN /\ exc' = r.exc
             /\ salida' = r.df
             /\ pc' = IF r.exc = "" THEN "done" ELSE "raised"
    /\ UNCHANGED <<coordenadas, categoria, query, distancia, i, resultados, res,
                   response, peticiones, enVuelo, traza, stdout, df,
                   towns, locations, ok>>

SpecLimpieza == InitLimpieza /\ [][Limpiar]_vars


-----------------------------------------------------------------------------
(* check_locations *)

Latitudes == {-91, -90, 90, 91}
Longitudes == {-181, -180, 180, 181}
Nombres == {"Madrid", "Toledo"}

\* variant: >= and <= instead of > and <
LatInvalidaEstricta(lat) == lat >= 90 \/ lat <= -90

\* line 66
LatInvalida(lat) == lat > 90 \/ lat < -90
\* line 70
LonInvalida(lon) == lon > 180 \/ lon < -180

InitCheck ==
    /\ pc = "check_locations"
    /\ \E n \in 0..MaxLocs :
          /\ towns \in [1..n -> Nombres]
          /\ locations \in [1..n -> [Latitud : Latitudes, Longitud : Longitudes]]
    /\ ok = TRUE
    /\ i = 0
    /\ stdout = <<>>
    /\ salida = NoValue
    /\ exc = ""
    /\ coordenadas = <<>>
    /\ categoria = None
    /\ query = None
    /\ distancia = Num(1000)
    /\ resultados = <<>>
    /\ res = NoValue
    /\ response = NoValue
    /\ peticiones = <<>>
    /\ enVuelo = 0
    /\ traza = <<>>
    /\ df = NoValue

\* lines 62-72: one iteration of the loop
CheckIter ==
    /\ pc = "check_locations"
    /\ i < Len(locations)
    /\ LET lat == locations[i + 1].Latitud
           lon == locations[i + 1].Longitud
       IN IF LatInvalida(lat)
          THEN /\ ok' = FALSE
               /\ stdout' = Append(stdout, <<"Error en", towns[i + 1]>>)
          ELSE IF LonInvalida(lon)
          THEN /\ ok' = FALSE
               /\ stdout' = Append(stdout, <<"Error en", towns[i + 1]>>)
          ELSE UNCHANGED <<ok, stdout>>
    /\ i' = i + 1
    /\ UNCHANGED <<pc, coordenadas, categoria, query, distancia, resultados, res,
                   response, peticiones, enVuelo, traza, df, salida, exc,
                   towns, locations>>

\* lines 74-75, and the implicit return None
CheckFin ==
    /\ pc = "check_locations"
    /\ i = Len(locations)
    /\ stdout' = IF ok THEN Append(stdout, <<"Todas las coordenadas concuerdan">>)
                 ELSE stdout
    /\ salida' = None
    /\ pc' = "done"
    /\ UNCHANGED <<coordenadas, categoria, query, distancia, i, resultados, res,
                   response, peticiones, enVuelo, traza, df, exc,
                   towns, locations, ok>>

SpecCheck == InitCheck /\ [][CheckIter \/ CheckFin]_vars


-----------------------------------------------------------------------------
(* Properties of obtener_df_lugares and buscar_lugares_cercanos (under Spec) *)

HayRespuesta == "status_code" \in DOMAIN response

\* C1: when buscar_lugares_cercanos returned no value for a coordinate, the loop
\* does not fail: the step that processes that result leaves the accumulator as it
\* was and moves on to the next coordinate.
C1_ErrorNoDetieneElBucle ==
    [][(pc = "procesar" /\ res = None)
          => (pc' = "loop" /\ resultados' = resultados /\ i' = i + 1 /\ exc' = "")]_vars

\* C2: a run over a single coordinate whose search call answers 403 ends normally,
\* having printed "Error 403", and returns a table with zero rows.
C2_Un403DaTablaVacia ==
    (/\ Len(coordenadas) = 1
     /\ HayRespuesta
     /\ response.status_code = 403
     /\ pc \in {"done", "raised"})
        => (/\ pc = "done"
            /\ exc = ""
            /\ <<"Error", 403>> \in Range(stdout)
            /\ "rows" \in DOMAIN salida
            /\ Len(salida.rows) = 0)

\* an optional argument is supplied when it is neither absent nor empty
C3_Supplied(x) == x \notin {None, Str("")}

\* C3: the parameters of every request hold 'll' and 'radius' and never both
\* 'categories' and 'query': a supplied (non-empty) categoria attaches only
\* 'categories', also when query is supplied; otherwise a supplied query attaches
\* only 'query'; with neither, no filter is attached.
C3_FiltroExclusivo ==
    \A k \in DOMAIN peticiones :
        LET p == peticiones[k]
        IN /\ {"ll", "radius"} \subseteq DOMAIN p
           /\ ~({"categories", "query"} \subseteq DOMAIN p)
           /\ p["radius"] = distancia
           /\ C3_Supplied(categoria)
                 => (DOMAIN p = {"ll", "radius", "categories"}
                        /\ p["categories"] = categoria)
           /\ (~C3_Supplied(categoria) /\ C3_Supplied(query))
                 => (DOMAIN p = {"ll", "radius", "query"} /\ p["query"] = query)
           /\ (~C3_Supplied(categoria) /\ ~C3_Supplied(query))
                 => DOMAIN p = {"ll", "radius"}

\* a request was sent with both categoria and query supplied
C3_Witness ==
    /\ peticiones # <<>>
    /\ C3_Supplied(categoria)
    /\ C3_Supplied(query)

\* C4: each invocation of buscar_lugares_cercanos issues exactly one GET, and when
\* it returns: for status 200 the value returned is the parsed body and nothing was
\* printed; for any other status the value is None and one line with the status
\* code was printed; the invocation never raises.
C4_RetornoSegunEstado ==
    [][/\ (pc = "llamar") => (pc' = "esperar" /\ Len(peticiones') = Len(peticiones) + 1)
       /\ (pc # "llamar") => (peticiones' = peticiones)
       /\ (pc = "esperar")
             => /\ pc' = "procesar"
                /\ exc' = ""
                /\ IF response'.status_code = 200
                   THEN res' = response'.json /\ stdout' = stdout
                   ELSE /\ res' = None
                        /\ stdout' = Append(stdout, <<"Error", response'.status_code>>)]_vars

\* a call has returned the body of a 200 response holding records
C4_Witness ==
    /\ pc = "procesar"
    /\ response.status_code = 200
    /\ res = response.json
    /\ Results(res) # <<>>
    /\ stdout = <<>>

\* the index of the first occurrence of x in s
C5_First(s, x) == CHOOSE k \in DOMAIN s : s[k] = x /\ \A j \in 1..(k - 1) : s[j] # x

\* C5: every iteration of the batch loop leaves the accumulator without two equal
\* records, holding each distinct record returned so far exactly once, in order of
\* first appearance: the records it had stay in place, and the records of the call
\* not seen before follow, once each, in their order within 'results'; so an
\* iteration yielding k unseen records lengthens it by exactly k.
C5_AcumuladorSinRepetidos ==
    [][(pc = "procesar" /\ pc' = "loop")
          => LET r == Results(res)
                 nuevos == Range(r) \ Range(resultados)
                 n == Len(resultados)
             IN /\ \A a, b \in DOMAIN resultados' :
                       a # b => resultados'[a] # resultados'[b]
                /\ Range(resultados') = Range(resultados) \cup Range(r)
                /\ Len(resultados') = n + Cardinality(nuevos)
                /\ SubSeq(resultados', 1, n) = resultados
                /\ \A a, b \in (n + 1)..Len(resultados') :
                       a < b => C5_First(r, resultados'[a]) < C5_First(r, resultados'[b])]_vars

\* the second call returned one record not seen before and one already accumulated
C5_Witness ==
    /\ pc = "loop"
    /\ i = 2
    /\ res = [results |-> <<CafeA, BarA>>]
    /\ resultados = <<BarA, BarB, CafeA>>

\* the events of a run over the first n coordinates in which every call succeeds
RECURSIVE C10_Esperada(_)
C10_Esperada(n) ==
    IF n = 0 THEN <<>>
    ELSE C10_Esperada(n - 1) \o
         << [e |-> "sleep"],
            [e |-> "call",
             args |-> [coordenadas |-> coordenadas[n], categoria |-> categoria,
                       query |-> query, distancia |-> distancia]],
            [e |-> "return", status |-> 200] >>

C10_TodasOk ==
    \A k \in DOMAIN traza : traza[k].e = "return" => traza[k].status = 200

C10_Completa == Append(C10_Esperada(Len(coordenadas)), [e |-> "limpieza"])

\* C10: in a run in which every search call succeeds, the events are, for each
\* coordinate in list order, one pause, then one call with that coordinate and the
\* caller's categoria/query/distancia, then its return; at most one call is in
\* flight; and the normalizer runs once, after the last return: a finished run has
\* issued exactly one call per coordinate.
C10_UnaLlamadaPorCoordenada ==
    /\ enVuelo \in {0, 1}
    /\ C10_TodasOk
          => /\ Len(traza) <= Len(C10_Completa)
             /\ traza = SubSeq(C10_Completa, 1, Len(traza))
             /\ enVuelo = 1 <=> (traza # <<>> /\ traza[Len(traza)].e = "call")
             /\ pc \in {"done", "raised"} => traza = C10_Completa
             /\ pc \in {"done", "raised"} => Len(peticiones) = Len(coordenadas)

\* a run over two coordinates, both calls answered 200, has finished
C10_Witness ==
    /\ pc = "done"
    /\ Len(coordenadas) = 2
    /\ coordenadas[1] # coordenadas[2]
    /\ C3_Supplied(categoria)
    /\ C3_Supplied(query)
    /\ C10_TodasOk
    /\ Len(traza) = 7


-----------------------------------------------------------------------------
(* Properties of limpieza_df (under SpecLimpieza) *)

\* the index of the first input row with the name nombre
PrimeraFila(nombre) ==
    CHOOSE k \in DOMAIN df.rows :
        /\ df.rows[k]["name"] = nombre
        /\ \A j \in 1..(k - 1) : df.rows[j]["name"] # nombre

\* row k of the input has no 'main' object inside its geocodes cell
SinMain(k) ==
    \/ "geocodes" \notin df.columns
    \/ ~IsDict(df.rows[k]["geocodes"])
    \/ "main" \notin DOMAIN df.rows[k]["geocodes"]

\* C6: when limpieza_df returns a table, it has at most as many rows as the input,
\* no two of its rows share a Nombre, every name of the input appears in it exactly
\* once, each row is the first input row with its name, and the kept rows are in
\* their input order.
C6_UnicoPorNombre ==
    pc = "done"
        => LET out == salida.rows
               ent == df.rows
           IN /\ Len(out) <= Len(ent)
              /\ \A a, b \in DOMAIN out : a # b => out[a]["Nombre"] # out[b]["Nombre"]
              /\ {out[a]["Nombre"] : a \in DOMAIN out} = {ent[k]["name"] : k \in DOMAIN ent}
              /\ \A a \in DOMAIN out :
                     LET k == PrimeraFila(out[a]["Nombre"])
                     IN /\ out[a]["Distancia"] = ent[k]["distance"]
                        /\ out[a]["Latitud"] = ent[k]["geocodes"]["main"]["latitude"]
                        /\ out[a]["Longitud"] = ent[k]["geocodes"]["main"]["longitude"]
              /\ \A a, b \in DOMAIN out :
                     a < b => PrimeraFila(out[a]["Nombre"]) < PrimeraFila(out[b]["Nombre"])

\* a table of three rows, two of them with the same name, was reduced to two rows
C6_Witness ==
    /\ pc = "done"
    /\ Len(df.rows) = 3
    /\ Len(salida.rows) = 2
    /\ df.rows[2]["name"] = df.rows[3]["name"]

\* C7: in the table limpieza_df returns, Direccion is NaN for every record whose
\* location has no 'formatted_address' or is not a mapping, and is the formatted
\* address string otherwise.
C7_DireccionNaNSiFalta ==
    pc = "done"
        => \A a \in DOMAIN salida.rows :
               LET loc == df.rows[PrimeraFila(salida.rows[a]["Nombre"])]["location"]
               IN IF IsDict(loc) /\ "formatted_address" \in DOMAIN loc
                  THEN salida.rows[a]["Direccion"] = loc["formatted_address"]
                  ELSE salida.rows[a]["Direccion"] = NaN

\* C9 as stated: whenever some input record has no 'main' geocode, limpieza_df
\* raises and returns no table.
C9_CualquierFilaSinMainFalla ==
    (pc \in {"done", "raised"} /\ \E k \in DOMAIN df.rows : SinMain(k))
        => (pc = "raised" /\ salida = NoValue)

\* C9 amended: whenever some input record that is the first of its name (one that
\* survives the de-duplication by name) has no 'main' geocode, limpieza_df raises
\* and returns no table, whatever valid records the table holds.
C9_PrimeraFilaSinMainFalla ==
    (/\ pc \in {"done", "raised"}
     /\ \E k \in DOMAIN df.rows : SinMain(k) /\ k = PrimeraFila(df.rows[k]["name"]))
        => (pc = "raised" /\ exc \in {"KeyError", "TypeError"} /\ salida = NoValue)

\* a table holding a valid record and, under another name, one without 'main'
\* was rejected whole
C9_Witness ==
    /\ pc = "raised"
    /\ Len(df.rows) = 2
    /\ ~SinMain(1)
    /\ SinMain(2)
    /\ df.rows[1]["name"] # df.rows[2]["name"]
    /\ ColumnasQuitadas \subseteq df.columns
    /\ salida = NoValue

-----------------------------------------------------------------------------
(* Properties of check_locations (under SpecCheck) *)

C8_Fuera(l) ==
    \/ l.Latitud \notin -90..90
    \/ l.Longitud \notin -180..180

C8_Exito == <<"Todas las coordenadas concuerdan">>

\* C8: when check_locations has returned, the output holds one error line naming
\* towns[k] for every index k whose latitude is outside [-90, 90] or whose longitude
\* is outside [-180, 180], and no other error line; it holds exactly one success
\* line if no location violates and none if any does; the value returned is None.
C8_LineasDeValidacion ==
    pc = "done"
        => LET malos == {k \in DOMAIN locations : C8_Fuera(locations[k])}
               errores == {k \in DOMAIN stdout : stdout[k] # C8_Exito}
               exitos == {k \in DOMAIN stdout : stdout[k] = C8_Exito}
           IN /\ \A k \in malos : <<"Error en", towns[k]>> \in Range(stdout)
              /\ Cardinality(errores) = Cardinality(malos)
              /\ \A k \in errores : \E m \in malos : stdout[k] = <<"Error en", towns[m]>>
              /\ malos = {} => (stdout = <<C8_Exito>>)
              /\ malos # {} => exitos = {}
              /\ salida = None

\* two locations were checked: one valid at the edge of both ranges, one whose
\* longitude alone is out of range
C8_Witness ==
    /\ pc = "done"
    /\ Len(locations) = 2
    /\ locations[1] = [Latitud |-> 90, Longitud |-> -180]
    /\ locations[2] = [Latitud |-> -90, Longitud |-> 181]
    /\ stdout = << <<"Error en", towns[2]>> >>

=============================================================================
